---- MODULE Spec2Model ----
(***************************************************************************)
(* A model of bxcan's frame layer (src/frame.rs): the payload type Data,   *)
(* the constructors and accessors of Frame, and the ordering facade        *)
(* FramePriority.  Id and IdReg live in the crate root, which is not part  *)
(* of the sources at hand; they are modelled from the specification's      *)
(* sections 3 and 4.1 (a packed register: 29 identifier bits, left         *)
(* aligned, then IDE, then RTR, compared as an unsigned number).           *)
(***************************************************************************)
EXTENDS Integers, Sequences, FiniteSets, TLC

VARIABLES
    op,     \* name of the operation performed last
    arg,    \* the inputs that operation was called with
    data,   \* Option<Data>: the payload value the caller holds
    frame,  \* Result<Frame, ()>: the frame constructed last
    a, b,   \* two Data values, the operands of ==
    f, g,   \* two frames (with the inputs they were built from), operands of cmp
    ret     \* what the last comparison returned

vars == <<op, arg, data, frame, a, b, f, g, ret>>

----------------------------------------------------------------------------
(* Bounds of the model *)

\* longest byte slice handed to Data::new
MaxSliceLen == 9
\* largest dlc handed to Frame::new_remote, besides the largest u8
MaxDlc == 9
\* how many identifiers are taken at each end of a range, minus one
IdSpread == 1

(* Program constants *)

\* [u8; 8], the backing buffer
Capacity == 8
\* `if data.len() > 8`
MaxDataLen == 8
\* `if dlc >= 8`
RemoteDlcLimit == 8
\* data_from_array!(0, ..., 8)
MaxArrayLen == 8
\* u8
U8Modulus == 256

\* StandardId: 11 bit, ExtendedId: 29 bit
StandardBits == 11
ExtendedBits == 29
\* the register holds IDE right below the identifier and RTR right below IDE
IdShift == 2
IdeBit == 2
RtrBit == 1

Bytes == {0, U8Modulus - 1}

\* slices that are constant, or constant but for one byte
Slices ==
    { [i \in 1..n |-> IF i = k THEN x ELSE y] :
        n \in 0..MaxSliceLen, k \in 0..MaxSliceLen, x \in Bytes, y \in Bytes }

Arrays == { s \in Slices : Len(s) <= MaxArrayLen }

Dlcs == (0..MaxDlc) \cup {U8Modulus - 1}

----------------------------------------------------------------------------
(* Option and Result *)

None == [some |-> FALSE]
Some(v) == [some |-> TRUE, val |-> v]
Err == [ok |-> FALSE]
Ok(v) == [ok |-> TRUE, val |-> v]

----------------------------------------------------------------------------
(* Id and IdReg *)

Standard(raw) == [kind |-> "Standard", raw |-> raw]
Extended(raw) == [kind |-> "Extended", raw |-> raw]

StandardMax == 2^StandardBits - 1
ExtendedMax == 2^ExtendedBits - 1
StandardShift == 2^(ExtendedBits - StandardBits)

StandardRaws == (0..IdSpread) \cup ((StandardMax - IdSpread)..StandardMax)
ExtendedRaws ==
    { s * StandardShift + j : s \in StandardRaws, j \in 0..IdSpread }
        \cup ((ExtendedMax - IdSpread)..ExtendedMax)

Ids == { Standard(r) : r \in StandardRaws } \cup { Extended(r) : r \in ExtendedRaws }

IdReg_new_standard(raw) == (raw * StandardShift) * 2^IdShift + IdeBit
IdReg_new_extended(raw) == raw * 2^IdShift

IdReg_rtr(reg) == (reg \div RtrBit) % 2 = 1
IdReg_is_standard(reg) == (reg \div IdeBit) % 2 = 1
IdReg_is_extended(reg) == ~IdReg_is_standard(reg)

IdReg_with_rtr(reg, flag) ==
    (reg - (IF IdReg_rtr(reg) THEN RtrBit ELSE 0)) + (IF flag THEN RtrBit ELSE 0)

IdReg_to_id(reg) ==
    IF IdReg_is_standard(reg)
    THEN Standard((reg \div 2^IdShift) \div StandardShift)
    ELSE Extended(reg \div 2^IdShift)

IdReg_cmp(x, y) == IF x < y THEN "Less" ELSE IF x = y THEN "Equal" ELSE "Greater"

----------------------------------------------------------------------------
(* Data *)

Filled(s) == [i \in 1..Capacity |-> IF i <= Len(s) THEN s[i] ELSE 0]

\* Data::new as it would be if it cut a long slice down to the buffer
Data_new_truncating(s) ==
    Some([len |-> IF Len(s) > MaxDataLen THEN MaxDataLen ELSE Len(s),
          bytes |-> Filled(s)])

Data_new(s) ==
    IF Len(s) > MaxDataLen
    THEN None
    ELSE Some([len |-> Len(s) % U8Modulus, bytes |-> Filled(s)])

Data_empty == [len |-> 0, bytes |-> [i \in 1..Capacity |-> 0]]

Data_len(d) == d.len

Data_is_empty(d) == d.len = 0

Data_deref(d) == SubSeq(d.bytes, 1, Data_len(d))

\* deref_mut as it would be if it handed out the whole buffer
Data_deref_mut_full(d) == d.bytes

Data_deref_mut(d) == SubSeq(d.bytes, 1, Data_len(d))

Data_as_ref(d) == Data_deref(d)

Data_as_mut(d) == Data_deref_mut(d)

\* == as it would be if it compared the fields (a derived PartialEq)
Data_eq_buffers(x, y) == x.len = y.len /\ x.bytes = y.bytes

Data_eq(x, y) == Data_as_ref(x) = Data_as_ref(y)

Data_from(arr) == [len |-> Len(arr), bytes |-> Filled(arr)]

\* a store through the write view: view[i] = v
Store(d, i, v) == [d EXCEPT !.bytes[i] = v]

\* the bytes of the backing buffer the views do not cover
Filler(d) == SubSeq(d.bytes, d.len + 1, Capacity)

\* every value of the struct: the fields are visible to the whole crate
Buffers ==
    { [i \in 1..Capacity |-> IF i = j \/ i = k THEN x ELSE 0] :
        j \in 1..Capacity, k \in {1, Capacity}, x \in Bytes }

DataValues ==
    { [len |-> n, bytes |-> bs] :
        n \in {0, 1, 2, Capacity - 1, Capacity}, bs \in Buffers }

----------------------------------------------------------------------------
(* Frame and FramePriority *)

\* new_data with the two match arms exchanged
Frame_new_data_swapped(id, d) ==
    [id |-> IF id.kind = "Standard"
            THEN IdReg_new_extended(id.raw)
            ELSE IdReg_new_standard(id.raw),
     data |-> d]

\* new_data dropping the payload it was given
Frame_new_data_empty(id, d) ==
    [id |-> IF id.kind = "Standard"
            THEN IdReg_new_standard(id.raw)
            ELSE IdReg_new_extended(id.raw),
     data |-> Data_empty]

Frame_new_data(id, d) ==
    [id |-> IF id.kind = "Standard"
            THEN IdReg_new_standard(id.raw)
            ELSE IdReg_new_extended(id.raw),
     data |-> d]

\* new_remote with the test `dlc > 8`
Frame_new_remote_inclusive(id, dlc) ==
    IF dlc > RemoteDlcLimit
    THEN Err
    ELSE LET made == Frame_new_data(id, Data_empty)
             sized == [made EXCEPT !.data.len = dlc]
         IN  Ok([sized EXCEPT !.id = IdReg_with_rtr(sized.id, TRUE)])

\* new_remote without the with_rtr(true) step
Frame_new_remote_data(id, dlc) ==
    IF dlc >= RemoteDlcLimit
    THEN Err
    ELSE LET made == Frame_new_data(id, Data_empty)
         IN  Ok([made EXCEPT !.data.len = dlc])

Frame_new_remote(id, dlc) ==
    IF dlc >= RemoteDlcLimit
    THEN Err
    ELSE LET made == Frame_new_data(id, Data_empty)
             sized == [made EXCEPT !.data.len = dlc]
         IN  Ok([sized EXCEPT !.id = IdReg_with_rtr(sized.id, TRUE)])

Frame_is_extended(fr) == IdReg_is_extended(fr.id)

Frame_is_standard(fr) == IdReg_is_standard(fr.id)

Frame_is_remote_frame(fr) == IdReg_rtr(fr.id)

Frame_is_data_frame(fr) == ~Frame_is_remote_frame(fr)

Frame_id(fr) == IdReg_to_id(fr.id)

Frame_priority(fr) == fr.id

Frame_dlc(fr) == Data_len(fr.data)

Frame_data(fr) == IF Frame_is_data_frame(fr) THEN Some(fr.data) ELSE None

\* cmp with the operands exchanged
FramePriority_cmp_reversed(p, q) == IdReg_cmp(q, p)

FramePriority_cmp(p, q) == IdReg_cmp(p, q)

----------------------------------------------------------------------------
(* The state machine *)

NoArg == [id |-> Standard(0), bytes |-> <<>>, dlc |-> 0, exposed |-> 0]

Operand(id, remote, fr) == [id |-> id, remote |-> remote, frame |-> fr]

Init ==
    /\ op = "init"
    /\ arg = NoArg
    /\ data = None
    /\ frame = Err
    /\ a = Data_empty
    /\ b = Data_empty
    /\ f = Operand(Standard(0), FALSE, Frame_new_data(Standard(0), Data_empty))
    /\ g = Operand(Standard(0), FALSE, Frame_new_data(Standard(0), Data_empty))
    /\ ret = "none"

(* Data::new(&s) *)
DataNew ==
    \E s \in Slices :
        /\ op' = "Data::new"
        /\ arg' = [NoArg EXCEPT !.bytes = s]
        /\ data' = Data_new(s)
        /\ UNCHANGED <<frame, a, b, f, g, ret>>

(* Data::empty() *)
DataEmpty ==
    /\ op' = "Data::empty"
    /\ arg' = NoArg
    /\ data' = Some(Data_empty)
    /\ UNCHANGED <<frame, a, b, f, g, ret>>

(* Data::from(arr), arr of one of the lengths the macro lists *)
DataFrom ==
    \E arr \in Arrays :
        /\ op' = "Data::from"
        /\ arg' = [NoArg EXCEPT !.bytes = arr]
        /\ data' = Some(Data_from(arr))
        /\ UNCHANGED <<frame, a, b, f, g, ret>>

(* data.deref_mut()[i] = v, or the same through as_mut *)
DataWrite ==
    /\ data.some
    /\ LET view == Data_as_mut(data.val)
       IN  \E i \in DOMAIN view, v \in Bytes :
               /\ op' = "write"
               /\ arg' = [NoArg EXCEPT !.exposed = Len(view)]
               /\ data' = Some(Store(data.val, i, v))
    /\ UNCHANGED <<frame, a, b, f, g, ret>>

NextData == DataNew \/ DataEmpty \/ DataFrom \/ DataWrite

SpecData == Init /\ [][NextData]_vars

(* x == y on two Data values *)
SetA ==
    \E x \in DataValues :
        /\ a' = x
        /\ op' = "set"
        /\ ret' = "none"
        /\ UNCHANGED <<arg, data, frame, b, f, g>>

SetB ==
    \E y \in DataValues :
        /\ b' = y
        /\ op' = "set"
        /\ ret' = "none"
        /\ UNCHANGED <<arg, data, frame, a, f, g>>

DataEq ==
    /\ op' = "eq"
    /\ ret' = Data_eq(a, b)
    /\ UNCHANGED <<arg, data, frame, a, b, f, g>>

NextEq == SetA \/ SetB \/ DataEq

SpecEq == Init /\ [][NextEq]_vars

(* Frame::new_data(id, d) *)
NewData ==
    \E id \in Ids, s \in Arrays :
        /\ op' = "Frame::new_data"
        /\ arg' = [NoArg EXCEPT !.id = id, !.bytes = s]
        /\ frame' = Ok(Frame_new_data(id, Data_from(s)))
        /\ UNCHANGED <<data, a, b, f, g, ret>>

(* Frame::new_remote(id, dlc) *)
NewRemote ==
    \E id \in Ids, dlc \in Dlcs :
        /\ op' = "Frame::new_remote"
        /\ arg' = [NoArg EXCEPT !.id = id, !.dlc = dlc]
        /\ frame' = Frame_new_remote(id, dlc)
        /\ UNCHANGED <<data, a, b, f, g, ret>>

Next == NewData \/ NewRemote

Spec == Init /\ [][Next]_vars

(* f.priority().cmp(&g.priority()) on two frames *)
OrderPayloads == {<<>>, [i \in 1..Capacity |-> U8Modulus - 1]}
OrderDlcs == {0, RemoteDlcLimit - 1}

Operands ==
    { Operand(id, FALSE, Frame_new_data(id, Data_from(s))) :
        id \in Ids, s \in OrderPayloads }
    \cup
    { Operand(id, TRUE, Frame_new_remote(id, dlc).val) :
        id \in Ids, dlc \in OrderDlcs }

SetF ==
    \E x \in Operands :
        /\ f' = x
        /\ op' = "set"
        /\ ret' = "none"
        /\ UNCHANGED <<arg, data, frame, a, b, g>>

SetG ==
    \E y \in Operands :
        /\ g' = y
        /\ op' = "set"
        /\ ret' = "none"
        /\ UNCHANGED <<arg, data, frame, a, b, f>>

Compare ==
    /\ op' = "cmp"
    /\ ret' = FramePriority_cmp(Frame_priority(f.frame), Frame_priority(g.frame))
    /\ UNCHANGED <<arg, data, frame, a, b, f, g>>

NextOrder == SetF \/ SetG \/ Compare

SpecOrder == Init /\ [][NextOrder]_vars

----------------------------------------------------------------------------
(* The claims *)

\* C1: Frame::new_remote(id, dlc) succeeds exactly when dlc is in 0..=7 and
\* returns the error value when dlc >= 8; the frame it returns is a remote
\* frame, is no data frame, reports dlc() == dlc and data() == None.
C1_NewRemote ==
    op = "Frame::new_remote" =>
        /\ frame.ok <=> arg.dlc \in 0..7
        /\ arg.dlc >= 8 => frame = Err
        /\ frame.ok =>
            /\ Frame_is_remote_frame(frame.val)
            /\ ~Frame_is_data_frame(frame.val)
            /\ Frame_dlc(frame.val) = arg.dlc
            /\ Frame_data(frame.val) = None

C1_Witness ==
    /\ op = "Frame::new_remote"
    /\ arg.dlc = 7
    /\ frame.ok
    /\ arg.id.kind = "Extended"

\* C2: a data frame with an extended id whose top 11 bits equal the standard
\* id of another data frame compares strictly less than that frame.
C2_ExtendedBelowStandard ==
    ( /\ op = "cmp"
      /\ ~f.remote /\ ~g.remote
      /\ f.id.kind = "Extended" /\ g.id.kind = "Standard"
      /\ f.id.raw \div StandardShift = g.id.raw )
        => ret = "Less"

C4_HigherPriorityGreater ==
    (op = "cmp" /\ f.frame.id < g.frame.id) => ret = "Greater"

C6_DataNew ==
    op = "Data::new" =>
        /\ data.some <=> Len(arg.bytes) \in 0..8
        /\ Len(arg.bytes) >= 9 => data = None
        /\ data.some =>
            /\ Data_len(data.val) = Len(arg.bytes)
            /\ Data_deref(data.val) = arg.bytes

C6_Witness ==
    /\ op = "Data::new"
    /\ data.some
    /\ Len(arg.bytes) = 8
    /\ arg.bytes[8] = 255
    /\ arg.bytes[1] = 0

\* C7: Frame::new_data(id, data) is a data frame, no remote frame, with
\* dlc() == data.len() and data() == Some(&data); it is standard exactly when
\* id is a standard identifier, and extended otherwise.
C7_NewData ==
    op = "Frame::new_data" =>
        /\ frame.ok
        /\ Frame_is_data_frame(frame.val)
        /\ ~Frame_is_remote_frame(frame.val)
        /\ Frame_dlc(frame.val) = Len(arg.bytes)
        /\ Frame_data(frame.val).some
        /\ Data_eq(Frame_data(frame.val).val, Data_from(arg.bytes))
        /\ Data_as_ref(Frame_data(frame.val).val) = arg.bytes
        /\ Frame_is_standard(frame.val) <=> arg.id.kind = "Standard"
        /\ Frame_is_extended(frame.val) <=> ~Frame_is_standard(frame.val)

C7_Witness ==
    /\ op = "Frame::new_data"
    /\ arg.id.kind = "Standard"
    /\ Len(arg.bytes) = 3
    /\ arg.bytes[2] = 255
    /\ Frame_dlc(frame.val) = 3

\* C8: two payloads are equal exactly when they have the same len and the
\* same bytes at every index below len; the bytes of the buffer at index
\* >= len play no part.
C8_DataEq ==
    op = "eq" =>
        (ret <=> ( /\ a.len = b.len
                   /\ \A i \in 1..a.len : a.bytes[i] = b.bytes[i] ))

C8_Witness ==
    /\ op = "eq"
    /\ ret = TRUE
    /\ a.len = 2
    /\ a.bytes[1] = 255
    /\ a.bytes # b.bytes

\* C9: a write through the write view leaves len and every byte at index
\* >= len as they were, and the view spans exactly the indexes below len; so
\* after any constructions and writes len <= 8 and the bytes at index >= len
\* are zero.
C9_WriteKeepsLenAndFiller ==
    [][ /\ op' = "write" =>
            /\ data'.val.len = data.val.len
            /\ Filler(data'.val) = Filler(data.val)
            /\ arg'.exposed = data.val.len
        /\ data'.some =>
            /\ data'.val.len <= 8
            /\ \A i \in (data'.val.len + 1)..Capacity : data'.val.bytes[i] = 0
      ]_vars

C9_Witness ==
    /\ op = "write"
    /\ data.val.len = 7
    /\ data.val.bytes[7] = 255
    /\ data.val.bytes[1] = 0
    /\ data.val.bytes[8] = 0

\* C10: id() of a frame built by new_data or new_remote is the identifier it
\* was built from, variant and value; setting the RTR bit changes neither the
\* identifier nor the IDE flag.
C10_IdRoundTrip ==
    (op \in {"Frame::new_data", "Frame::new_remote"} /\ frame.ok) =>
        /\ Frame_id(frame.val) = arg.id
        /\ Frame_is_standard(frame.val) <=> arg.id.kind = "Standard"

C10_Witness ==
    /\ op = "Frame::new_remote"
    /\ frame.ok
    /\ arg.id = Extended(ExtendedMax - 1)
    /\ Frame_id(frame.val) = arg.id

====
